---- MODULE Spec2Model ----
(***************************************************************************)
(* Model of streamlit_app.py: the reconciliation front end.                *)
(*                                                                         *)
(* The program is a Streamlit script.  Every user event (page load, a file *)
(* picked, a button pressed) runs the whole script top to bottom against   *)
(* st.session_state, which persists between runs.  A button can only be    *)
(* pressed if the page left by the previous run shows it enabled; in the   *)
(* run the press starts, st.button(...) for that button returns True       *)
(* whatever value its disabled= argument has in that run (disabled= only   *)
(* tells the browser how to draw the button).                              *)
(*                                                                         *)
(* Environment: the backend answers as section 6 of the specification      *)
(* describes it: a 200 answer has a JSON body, and a body with             *)
(* success=true carries its payload (a non-empty session_id for /upload).  *)
(***************************************************************************)
EXTENDS Integers, Sequences, FiniteSets, TLC

VARIABLES
    session_state,   \* st.session_state: a function from the keys present to values
    bank_file,       \* value of the bank_statement_uploader widget
    invoice_file,    \* value of the invoices_uploader widget
    page,            \* the buttons the last script run drew enabled
    last,            \* what the last script run did (history, for the properties)
    call,            \* a helper function called on its own: its input and result
    running          \* the script runs that wait for the answer of a workflow
                     \* request, oldest first (empty where runs are taken whole)

vars == <<session_state, bank_file, invoice_file, page, last, call, running>>

----------------------------------------------------------------------------
(* Bounds of the model *)

\* number of distinct session ids the backend may hand out
NumSessionIds == 2

\* number of distinct payloads of an /identify_columns answer
NumPayloads == 1

----------------------------------------------------------------------------
(* Python values *)

None == [type |-> "NoneType"]

Str(v) == [type |-> "str", value |-> v]

\* bool(v) for the values a session field can hold: None and "" are falsy
Truthy(v) == v # None /\ v # Str("")

IdNames == <<"sess-1", "sess-2", "sess-3", "sess-4">>

\* the session ids the backend may hand out
SessionIds == {Str(IdNames[i]) : i \in 1..NumSessionIds}

Payloads == 1..NumPayloads

----------------------------------------------------------------------------
(* initialize_session_state *)

default_states ==
    [upload_result |-> None,
     column_identification_result |-> None,
     matching_result |-> None,
     session_id |-> None,
     files_uploaded |-> FALSE,
     columns_identified |-> FALSE,
     matching_completed |-> FALSE,
     backend_status |-> None]

\* every key of default_states that st.session_state lacks is set to its default
initialize_session_state(s) ==
    [k \in (DOMAIN s) \cup (DOMAIN default_states) |->
        IF k \in DOMAIN s THEN s[k] ELSE default_states[k]]

\* st.session_state.get(key, default)
Get(s, key, default) == IF key \in DOMAIN s THEN s[key] ELSE default

\* st.session_state[key] = value
Set(s, key, value) ==
    [k \in (DOMAIN s) \cup {key} |-> IF k = key THEN value ELSE s[k]]

\* st.session_state as the first run of a browser session finds it
NoKeys == [k \in {} |-> None]

----------------------------------------------------------------------------
(* test_backend_connection *)

\* mutant: one attempt more
max_retries_plus_one == 3 + 1

max_retries == 3

base_delay == 2

\* what one GET /health can end in
HealthOutcomes == {"200", "non200", "ssl", "connection", "timeout", "exception"}

TransportSeqs == [0..(max_retries - 1) -> HealthOutcomes]

\* The result of the probe depends only on the first attempt that gets a response
\* or is the last one, and on how many attempts precede it: the error_msg of an
\* earlier failure is dropped.  One sequence per such case: the earlier attempts
\* fail to connect (a cold start), the later ones are never made.
HealthScenarios ==
    {tr \in TransportSeqs :
        \E d \in 0..(max_retries - 1) :
            /\ \A i \in 0..(d - 1) : tr[i] = "connection"
            /\ tr[d] \in {"200", "non200"} \/ d = max_retries - 1
            /\ \A i \in (d + 1)..(max_retries - 1) : tr[i] = "200"}

\* mutant: no exponential growth of the delay
Pow2Flat(n) == 1

RECURSIVE Pow2(_)
\* 2 ** n
Pow2(n) == IF n = 0 THEN 1 ELSE 2 * Pow2(n - 1)

\* the message of the except clause that catches outcome o on the last attempt
LastAttemptMessage(o) ==
    CASE o = "ssl" -> "SSL Error"
      [] o = "connection" -> "Connection Error"
      [] o = "timeout" -> "Timeout - Backend may be sleeping on Render"
      [] OTHER -> "Unexpected error"

RECURSIVE ProbeFromRetryingBadStatus(_, _, _)
\* mutant: a response with a status other than 200 is retried like a failure
ProbeFromRetryingBadStatus(tr, attempt, waits) ==
    IF attempt >= max_retries
    THEN [connected |-> FALSE, message |-> "Max retries exceeded",
          attempts |-> attempt, waits |-> waits]
    ELSE IF tr[attempt] = "200"
    THEN [connected |-> TRUE, message |-> "Connected (HTTP 200)",
          attempts |-> attempt + 1, waits |-> waits]
    ELSE IF attempt = max_retries - 1
    THEN [connected |-> FALSE,
          message |-> IF tr[attempt] = "non200" THEN "HTTP error"
                      ELSE LastAttemptMessage(tr[attempt]),
          attempts |-> attempt + 1, waits |-> waits]
    ELSE ProbeFromRetryingBadStatus(tr, attempt + 1,
                                    Append(waits, base_delay * Pow2(attempt)))

RECURSIVE ProbeFromFallingThrough(_, _, _)
\* mutant: the except clauses of the last attempt do not return
ProbeFromFallingThrough(tr, attempt, waits) ==
    IF attempt >= max_retries
    THEN [connected |-> FALSE, message |-> "Max retries exceeded",
          attempts |-> attempt, waits |-> waits]
    ELSE IF tr[attempt] = "200"
    THEN [connected |-> TRUE, message |-> "Connected (HTTP 200)",
          attempts |-> attempt + 1, waits |-> waits]
    ELSE IF tr[attempt] = "non200"
    THEN [connected |-> FALSE, message |-> "HTTP error",
          attempts |-> attempt + 1, waits |-> waits]
    ELSE IF attempt < max_retries - 1
    THEN ProbeFromFallingThrough(tr, attempt + 1,
                                 Append(waits, base_delay * Pow2(attempt)))
    ELSE ProbeFromFallingThrough(tr, attempt + 1, waits)

RECURSIVE ProbeFrom(_, _, _)
\* the for loop from iteration `attempt` on; waits: the sleeps done so far
ProbeFrom(tr, attempt, waits) ==
    IF attempt >= max_retries
    THEN [connected |-> FALSE, message |-> "Max retries exceeded",
          attempts |-> attempt, waits |-> waits]
    ELSE IF tr[attempt] = "200"
    THEN [connected |-> TRUE, message |-> "Connected (HTTP 200)",
          attempts |-> attempt + 1, waits |-> waits]
    ELSE IF tr[attempt] = "non200"
    THEN [connected |-> FALSE, message |-> "HTTP error",
          attempts |-> attempt + 1, waits |-> waits]
    ELSE IF attempt = max_retries - 1
    THEN [connected |-> FALSE, message |-> LastAttemptMessage(tr[attempt]),
          attempts |-> attempt + 1, waits |-> waits]
    ELSE IF attempt < max_retries - 1
    THEN ProbeFrom(tr, attempt + 1, Append(waits, base_delay * Pow2(attempt)))
    ELSE ProbeFrom(tr, attempt + 1, waits)

test_backend_connection(tr) == ProbeFrom(tr, 0, <<>>)

\* {"connected": is_connected, "message": status}
BackendStatus(probe) ==
    [type |-> "dict", connected |-> probe.connected, message |-> probe.message]

----------------------------------------------------------------------------
(* validate_file *)

\* 50 * 1024 * 1024
MaxFileSize == 50 * 1024 * 1024

allowed_extensions == {<<"c", "s", "v">>, <<"x", "l", "s", "x">>, <<"x", "l", "s">>}

\* str.lower() on one character
LowerChar(c) ==
    CASE c = "C" -> "c" [] c = "S" -> "s" [] c = "V" -> "v"
      [] c = "X" -> "x" [] c = "L" -> "l" [] c = "T" -> "t"
      [] OTHER -> c

Lower(str) == [i \in 1..Len(str) |-> LowerChar(str[i])]

\* name.split('.')[-1]: what follows the last '.', the whole name if it has none
LastSegment(name) ==
    LET dots == {i \in 1..Len(name) : name[i] = "."}
        from == IF dots = {} THEN 1
                ELSE (CHOOSE i \in dots : \A j \in dots : j <= i) + 1
    IN SubSeq(name, from, Len(name))

\* mutant: a file of exactly the maximum size is refused, and the extension
\* is tested before the size
validate_file_ExtensionFirst(file, file_type) ==
    IF file = None
    THEN [valid |-> FALSE, message |-> "file is required"]
    ELSE IF Lower(LastSegment(file.name)) \notin allowed_extensions
    THEN [valid |-> FALSE, message |-> "must be one of: csv, xlsx, xls"]
    ELSE IF file.size >= MaxFileSize
    THEN [valid |-> FALSE, message |-> "file is too large (max 50MB)"]
    ELSE [valid |-> TRUE, message |-> "Valid"]

\* (is_valid, message)
validate_file(file, file_type) ==
    IF file = None
    THEN [valid |-> FALSE, message |-> "file is required"]
    ELSE IF file.size > MaxFileSize
    THEN [valid |-> FALSE, message |-> "file is too large (max 50MB)"]
    ELSE IF Lower(LastSegment(file.name)) \notin allowed_extensions
    THEN [valid |-> FALSE, message |-> "must be one of: csv, xlsx, xls"]
    ELSE [valid |-> TRUE, message |-> "Valid"]

File(name, size) == [type |-> "UploadedFile", name |-> name, size |-> size]

\* the files the user can pick: one that passes validate_file, one that does not
FileCandidates ==
    {File(<<"b", ".", "X", "l", "s", "x">>, MaxFileSize),
     File(<<"c", ".", "c", "s", "v">>, MaxFileSize + 1)}

----------------------------------------------------------------------------
(* make_api_request *)

Response(status_code, body) ==
    [type |-> "Response", status_code |-> status_code, body |-> body]

\* requests.Response.__bool__: the status is below 400
ResponseTruthy(r) == r # None /\ r.status_code < 400

\* an exception of class `exception` whose str() is `message`
RaisedWith(exception, message) ==
    [type |-> "exception", class |-> exception, message |-> message]

Raised(exception) == RaisedWith(exception, "")

\* the ways a request can end without a response
TransportFailures == {Raised("Timeout"), Raised("ConnectionError"), Raised("Exception")}

\* the classes of requests.exceptions that `except requests.exceptions.Timeout`
\* catches, and those that `except requests.exceptions.ConnectionError` catches;
\* ConnectTimeout derives from both
TimeoutClasses == {"Timeout", "ReadTimeout", "ConnectTimeout"}

ConnectionErrorClasses == {"ConnectionError", "SSLError", "ProxyError", "ConnectTimeout"}

\* the error string of the except clause that catches the failure; the clauses
\* are tried in the order in which they are written
RequestErrorMessage(failure) ==
    IF failure.class \in TimeoutClasses
    THEN "Request timed out. The operation may be taking longer than expected."
    ELSE IF failure.class \in ConnectionErrorClasses
    THEN "Failed to connect to backend. The service may be starting up."
    ELSE "Request failed: " \o failure.message

\* a dict without keys, as the handlers' payloads are written here
EmptyPayload == [type |-> "dict"]

\* bool(payload) for None and for a dict
PayloadTruthy(payload) == payload # None /\ payload # EmptyPayload

\* mutant: a request that ends without a response is sent a second time
make_api_request_Retrying(endpoint, method, data, files, transport) ==
    IF method = "GET" \/ (method = "POST" /\ PayloadTruthy(files))
                     \/ (method = "POST" /\ PayloadTruthy(data))
    THEN IF transport.type = "exception"
         THEN [response |-> None, error |-> Str(RequestErrorMessage(transport)),
               sent |-> <<endpoint, endpoint>>]
         ELSE [response |-> transport, error |-> None, sent |-> <<endpoint>>]
    ELSE [response |-> None, error |-> Str("Invalid request method"), sent |-> <<>>]

\* mutant: a response whose status is 400 or more is raised as an exception
\* (raise_for_status) and caught by the last except clause
make_api_request_RaisingForStatus(endpoint, method, data, files, transport) ==
    IF method = "GET" \/ (method = "POST" /\ PayloadTruthy(files))
                     \/ (method = "POST" /\ PayloadTruthy(data))
    THEN IF transport.type = "exception"
         THEN [response |-> None, error |-> Str(RequestErrorMessage(transport)),
               sent |-> <<endpoint>>]
         ELSE IF transport.status_code >= 400
         THEN [response |-> None,
               error |-> Str(RequestErrorMessage(RaisedWith("HTTPError", "status"))),
               sent |-> <<endpoint>>]
         ELSE [response |-> transport, error |-> None, sent |-> <<endpoint>>]
    ELSE [response |-> None, error |-> Str("Invalid request method"), sent |-> <<>>]

\* (response, error), and the requests sent; `transport` is what the network does
\* with the request: an exception raised by requests, or the Response of the
\* backend
make_api_request(endpoint, method, data, files, transport) ==
    IF method = "GET" \/ (method = "POST" /\ PayloadTruthy(files))
                     \/ (method = "POST" /\ PayloadTruthy(data))
    THEN IF transport.type = "exception"
         THEN [response |-> None, error |-> Str(RequestErrorMessage(transport)),
               sent |-> <<endpoint>>]
         ELSE [response |-> transport, error |-> None, sent |-> <<endpoint>>]
    ELSE [response |-> None, error |-> Str("Invalid request method"), sent |-> <<>>]

----------------------------------------------------------------------------
(* Step 4: the matching result as the backend returns it, and the two    *)
(* downloads computed from the one that is stored                         *)

\* the longest list of matches
MaxMatches == 2

\* rows of the bank statement and of the invoice file, as the backend returns
\* them: dicts from column names to values; both files have a column "amount"
BankEntries ==
    {[date |-> "2024-01-05", amount |-> 100],
     [date |-> "2024-01-09", amount |-> 250, reference |-> "INV-7"]}

InvoiceEntries ==
    {[invoice_no |-> "INV-7", amount |-> 250],
     [amount |-> 120]}

MatchRecords ==
    {[file_a_entry |-> a, file_b_entry |-> b,
      confidence_score |-> 90, match_reason |-> r] :
        a \in BankEntries, b \in InvoiceEntries,
        r \in {"exact amount", "reference"}}

MatchLists == UNION {[1..n -> MatchRecords] : n \in 0..MaxMatches}

ColumnInfos == {[matching_strategy |-> "amount"], [matching_strategy |-> "reference"]}

\* {} and [], the defaults of the .get() calls
EmptyDict == [k \in {} |-> None]

EmptyList == <<>>

\* dict.update: the keys of `more` are added to `d`, replacing equal keys
Update(d, more) ==
    [k \in (DOMAIN d) \cup (DOMAIN more) |-> IF k \in DOMAIN more THEN more[k] ELSE d[k]]

\* The bodies of a successful answer of POST /match: all optional fields
\* left out, the fields of section 6 of the specification, and those with a
\* column_info on top.
MatchBodies ==
    LET required == {[success |-> TRUE, matches |-> m] : m \in MatchLists}
        documented ==
            {Update(b, [summary |-> [matched_pairs |-> Len(b.matches),
                                     unmatched_bank |-> Len(u.a),
                                     unmatched_invoices |-> Len(u.b)],
                        unmatched_file_a_entries |-> u.a,
                        unmatched_file_b_entries |-> u.b,
                        message |-> "Matching completed"]) :
                b \in required,
                u \in {[a |-> <<>>, b |-> <<>>],
                       [a |-> <<[date |-> "2024-02-01", amount |-> 75]>>,
                        b |-> <<[invoice_no |-> "INV-9", amount |-> 80]>>]}}
        extended == {Update(b, [column_info |-> ci]) :
                        b \in documented, ci \in ColumnInfos}
    IN required \cup documented \cup extended

\* mutant: the invoice fields get the prefix of the bank fields
row_OnePrefix(match) ==
    LET bank == [k \in {"Bank_" \o key : key \in DOMAIN match.file_a_entry} |->
                    match.file_a_entry[CHOOSE key \in DOMAIN match.file_a_entry :
                                          "Bank_" \o key = k]]
        invoice == [k \in {"Bank_" \o key : key \in DOMAIN match.file_b_entry} |->
                       match.file_b_entry[CHOOSE key \in DOMAIN match.file_b_entry :
                                             "Bank_" \o key = k]]
    IN Update(Update(Update(EmptyDict, bank), invoice),
              [Confidence_Score |-> match.confidence_score,
               Match_Reason |-> match.match_reason])

\* the row built for one match: the two loops over .items() and the metadata
row(match) ==
    LET bank == [k \in {"Bank_" \o key : key \in DOMAIN match.file_a_entry} |->
                    match.file_a_entry[CHOOSE key \in DOMAIN match.file_a_entry :
                                          "Bank_" \o key = k]]
        invoice == [k \in {"Invoice_" \o key : key \in DOMAIN match.file_b_entry} |->
                       match.file_b_entry[CHOOSE key \in DOMAIN match.file_b_entry :
                                             "Invoice_" \o key = k]]
    IN Update(Update(Update(EmptyDict, bank), invoice),
              [Confidence_Score |-> match.confidence_score,
               Match_Reason |-> match.match_reason])

\* matched_data after the loop over matching_result['matches']
matched_data(matching_result) ==
    [i \in 1..Len(matching_result["matches"]) |-> row(matching_result["matches"][i])]

NaN == [type |-> "float", value |-> "nan"]

\* pd.DataFrame(matched_data): one record per dict, one column per key that
\* occurs in any of them, NaN where a dict has no such key
matched_df(data) ==
    LET columns == UNION {DOMAIN data[i] : i \in 1..Len(data)}
    IN [columns |-> columns,
        records |-> [i \in 1..Len(data) |->
                        [k \in columns |-> IF k \in DOMAIN data[i] THEN data[i][k]
                                           ELSE NaN]]]

\* the body of: if st.button("Download Matched Transactions")
DownloadMatchedHandler(s) ==
    IF Get(s["matching_result"], "matches", EmptyList) # EmptyList
    THEN LET data == matched_data(s["matching_result"])
         IN [shown |-> "download_button", matched_data |-> data,
             matched_df |-> matched_df(data)]
    ELSE [shown |-> "info", matched_data |-> EmptyList, matched_df |-> None]

\* report_data
report_data(s) ==
    [summary |-> Get(s["matching_result"], "summary", EmptyDict),
     matches |-> Get(s["matching_result"], "matches", EmptyList),
     unmatched_bank |-> Get(s["matching_result"], "unmatched_file_a_entries", EmptyList),
     unmatched_invoices |-> Get(s["matching_result"], "unmatched_file_b_entries", EmptyList),
     column_info |-> Get(s["matching_result"], "column_info", EmptyDict)]

\* the body of: if st.button("Download Full Report")
DownloadReportHandler(s) ==
    [shown |-> "download_button", report_data |-> report_data(s)]

----------------------------------------------------------------------------
(* The backend, as section 6 of the specification describes its answers *)

ErrorBody == [type |-> "dict", success |-> FALSE, error |-> "error"]

\* the lists of matches of the answers of POST /match: none, and one match
SampleMatchLists ==
    {EmptyList,
     <<[file_a_entry |-> [date |-> "2024-01-09", amount |-> 250, reference |-> "INV-7"],
        file_b_entry |-> [invoice_no |-> "INV-7", amount |-> 250],
        confidence_score |-> 90, match_reason |-> "reference"]>>}

SuccessBodies(endpoint) ==
    CASE endpoint = "/upload" ->
            {[type |-> "dict", success |-> TRUE, session_id |-> id] : id \in SessionIds}
      [] endpoint = "/identify_columns" ->
            {[type |-> "dict", success |-> TRUE, column_info |-> p] : p \in Payloads}
      [] OTHER ->
            {[type |-> "dict", success |-> TRUE, matches |-> m] : m \in SampleMatchLists}

\* everything a request to a workflow endpoint can end in
ApiOutcomes(endpoint) ==
    TransportFailures
    \cup {Response(code, ErrorBody) : code \in {200, 201, 500}}
    \cup {Response(200, body) : body \in SuccessBodies(endpoint)}

----------------------------------------------------------------------------
(* The three workflow steps of the script.  Each handler returns the session *)
(* state it leaves, the requests it sent and how it ended.                   *)

Handled(s, sent, outcome) == [session |-> s, sent |-> sent, outcome |-> outcome]

\* upload_disabled
upload_disabled(s) ==
    Get(s, "files_uploaded", FALSE) \/ ~s["backend_status"].connected

\* mutant: the handler does not store the session id of the answer
UploadHandlerNoSessionId(s, bank, invoice, transport) ==
    LET bank_valid == IF bank # None THEN validate_file(bank, "Bank statement").valid
                      ELSE FALSE
        invoice_valid == IF invoice # None THEN validate_file(invoice, "Invoice").valid
                         ELSE FALSE
    IN IF ~bank_valid \/ ~invoice_valid
       THEN Handled(s, <<>>, "validation_error")
       ELSE LET files == [type |-> "dict", bank_statement |-> bank, invoices |-> invoice]
                r == make_api_request("/upload", "POST", None, files, transport)
            IN IF Truthy(r.error)
               THEN Handled(s, r.sent, "request_error")
               ELSE IF ResponseTruthy(r.response) /\ r.response.status_code = 200
               THEN LET result == r.response.body
                    IN IF result.success
                       THEN Handled(
                              Set(Set(s, "upload_result", result),
                                  "files_uploaded", TRUE),
                              r.sent, "success")
                       ELSE Handled(s, r.sent, "backend_error")
               ELSE Handled(s, r.sent, "server_error")

\* the body of: if st.button("Upload & Prepare Data", ...)
UploadHandler(s, bank, invoice, transport) ==
    LET bank_valid == IF bank # None THEN validate_file(bank, "Bank statement").valid
                      ELSE FALSE
        invoice_valid == IF invoice # None THEN validate_file(invoice, "Invoice").valid
                         ELSE FALSE
    IN IF ~bank_valid \/ ~invoice_valid
       THEN Handled(s, <<>>, "validation_error")
       ELSE LET files == [type |-> "dict", bank_statement |-> bank, invoices |-> invoice]
                r == make_api_request("/upload", "POST", None, files, transport)
            IN IF Truthy(r.error)
               THEN Handled(s, r.sent, "request_error")
               ELSE IF ResponseTruthy(r.response) /\ r.response.status_code = 200
               THEN LET result == r.response.body
                    IN IF result.success
                       THEN Handled(
                              Set(Set(Set(s, "upload_result", result),
                                      "session_id", result.session_id),
                                  "files_uploaded", TRUE),
                              r.sent, "success")
                       ELSE Handled(s, r.sent, "backend_error")
               ELSE Handled(s, r.sent, "server_error")

\* mutant: Step 2 is drawn whatever is stored
IdentifyShownAlways(s) == TRUE

\* the condition of Step 2
IdentifyShown(s) ==
    Truthy(Get(s, "upload_result", None)) /\ Truthy(Get(s, "session_id", None))

\* column_disabled
column_disabled(s) ==
    Get(s, "columns_identified", FALSE) \/ ~s["backend_status"].connected

\* mutant: the handler stores the answer before it looks at its success field
IdentifyHandlerStoresFirst(s, transport) ==
    LET column_payload == [type |-> "dict", session_id |-> s["session_id"]]
        r == make_api_request("/identify_columns", "POST", column_payload, None, transport)
    IN IF Truthy(r.error)
       THEN Handled(s, r.sent, "request_error")
       ELSE IF ResponseTruthy(r.response) /\ r.response.status_code = 200
       THEN LET result == r.response.body
                stored == Set(s, "column_identification_result", result)
            IN IF result.success
               THEN Handled(Set(stored, "columns_identified", TRUE), r.sent, "success")
               ELSE Handled(stored, r.sent, "backend_error")
       ELSE Handled(s, r.sent, "server_error")

\* the body of: if st.button("Identify Key Columns", ...)
IdentifyHandler(s, transport) ==
    LET column_payload == [type |-> "dict", session_id |-> s["session_id"]]
        r == make_api_request("/identify_columns", "POST", column_payload, None, transport)
    IN IF Truthy(r.error)
       THEN Handled(s, r.sent, "request_error")
       ELSE IF ResponseTruthy(r.response) /\ r.response.status_code = 200
       THEN LET result == r.response.body
            IN IF result.success
               THEN Handled(
                      Set(Set(s, "column_identification_result", result),
                          "columns_identified", TRUE),
                      r.sent, "success")
               ELSE Handled(s, r.sent, "backend_error")
       ELSE Handled(s, r.sent, "server_error")

\* mutant: Step 3 is drawn whatever is stored
MatchShownAlways(s) == TRUE

\* the condition of Step 3
MatchShown(s) ==
    Truthy(Get(s, "column_identification_result", None))
    /\ Truthy(Get(s, "session_id", None))

\* matching_disabled
matching_disabled(s) ==
    Get(s, "matching_completed", FALSE) \/ ~s["backend_status"].connected

\* the body of: if st.button("Start AI Matching", ...)
MatchHandler(s, transport) ==
    LET matching_payload == [type |-> "dict", session_id |-> s["session_id"]]
        r == make_api_request("/match", "POST", matching_payload, None, transport)
    IN IF Truthy(r.error)
       THEN Handled(s, r.sent, "request_error")
       ELSE IF ResponseTruthy(r.response) /\ r.response.status_code = 200
       THEN LET result == r.response.body
            IN IF result.success
               THEN Handled(
                      Set(Set(s, "matching_result", result),
                          "matching_completed", TRUE),
                      r.sent, "success")
               ELSE Handled(s, r.sent, "backend_error")
       ELSE Handled(s, r.sent, "server_error")

\* mutant: Step 4 is drawn whatever is stored
DownloadShownAlways(s) == TRUE

\* the condition of Step 4
DownloadShown(s) == Truthy(Get(s, "matching_result", None))

\* mutant: the Reset section is drawn in every stage
ResetShownAlways(s) == TRUE

\* the condition under which the Reset section is drawn
ResetShown(s) ==
    Get(s, "files_uploaded", FALSE) \/ Get(s, "columns_identified", FALSE)
    \/ Get(s, "matching_completed", FALSE)

\* del st.session_state[key], for each key of `keys`
DeleteKeys(s, keys) == [k \in (DOMAIN s) \ keys |-> s[k]]

\* mutant: the reset deletes the matching result and its flag only
ClearMatchingOnly(s) == DeleteKeys(s, {"matching_result", "matching_completed"})

\* mutant: the reset keeps the session id
ClearAllButSessionId(s) == DeleteKeys(s, (DOMAIN s) \ {"session_id"})

\* for key in list(st.session_state.keys()): del st.session_state[key]
ClearAll(s) == DeleteKeys(s, DOMAIN s)

----------------------------------------------------------------------------
(* One run of the script *)

Buttons ==
    {"upload", "identify", "match", "download_matched", "download_report", "reset",
     "test_connection"}

\* no button pressed: the run of a page load, of a file picked, of st.rerun()
NoClick == "none"

\* n requests to GET /health
HealthRequests(n) == [i \in 1..n |-> "/health"]

\* What a run has done so far: the st.session_state, the buttons drawn enabled,
\* the requests sent in order, and how the handler that ran ended.
Started(s0) == [session |-> s0, page |-> {}, requests |-> <<>>, outcome |-> "none"]

\* statement sequencing: `c` is computed, then Step is run on it
Then(c, Step(_)) == CHOOSE r \in {Step(x) : x \in {c}} : TRUE

\* draws button b, enabled or not, and runs handler result h if it was pressed
Button(c, b, enabled, h) ==
    [session |-> h.session,
     page |-> IF enabled THEN c.page \cup {b} ELSE c.page,
     requests |-> c.requests \o h.sent,
     outcome |-> IF h.outcome = "none" THEN c.outcome ELSE h.outcome]

NotPressed(c) == Handled(c.session, <<>>, "none")

\* initialize_session_state()
InitStep(c) == [c EXCEPT !.session = initialize_session_state(@)]

\* Backend Status Check: the probe runs only while backend_status is None
BackendStatusCheck(c, tr) ==
    IF c.session["backend_status"] = None
    THEN Then(test_backend_connection(tr),
              LAMBDA check :
                [c EXCEPT !.session = Set(@, "backend_status", BackendStatus(check)),
                          !.requests = @ \o HealthRequests(check.attempts)])
    ELSE c

\* Step 1: the upload button and its handler
UploadStep(c, clicked, bank, invoice, api) ==
    Then(IF clicked = "upload" THEN UploadHandler(c.session, bank, invoice, api)
         ELSE NotPressed(c),
         LAMBDA h : Button(c, "upload", ~upload_disabled(c.session), h))

\* Step 2: drawn only once an upload result and a session id are stored
IdentifyStep(c, clicked, api) ==
    IF IdentifyShown(c.session)
    THEN Then(IF clicked = "identify" THEN IdentifyHandler(c.session, api)
              ELSE NotPressed(c),
              LAMBDA h : Button(c, "identify", ~column_disabled(c.session), h))
    ELSE c

\* Step 3: drawn only once a column identification result is stored
MatchStep(c, clicked, api) ==
    IF MatchShown(c.session)
    THEN Then(IF clicked = "match" THEN MatchHandler(c.session, api)
              ELSE NotPressed(c),
              LAMBDA h : Button(c, "match", ~matching_disabled(c.session), h))
    ELSE c

\* Step 4: the two download buttons, drawn only once a matching result is
\* stored; a stage in which it is not stored leaves the downloads with nothing
\* to read
DownloadStep(c, clicked) ==
    IF DownloadShown(c.session)
    THEN Then(Button(c, "download_matched", TRUE,
                     IF clicked = "download_matched"
                     THEN Handled(c.session, <<>>,
                                  IF DownloadMatchedHandler(c.session).shown
                                       = "download_button"
                                  THEN "matched_csv" ELSE "no_matches")
                     ELSE NotPressed(c)),
              LAMBDA d :
                Button(d, "download_report", TRUE,
                       IF clicked = "download_report"
                       THEN Handled(d.session, <<>>,
                                    IF DownloadReportHandler(d.session).shown
                                         = "download_button"
                                    THEN "full_report" ELSE "none")
                       ELSE NotPressed(d)))
    ELSE c

\* the sidebar: the Test Connection button and its handler
Sidebar(c, clicked, tr) ==
    Then(IF clicked = "test_connection"
         THEN Then(test_backend_connection(tr),
                   LAMBDA test :
                     Handled(Set(c.session, "backend_status", BackendStatus(test)),
                             HealthRequests(test.attempts), "tested"))
         ELSE NotPressed(c),
         LAMBDA h : Button(c, "test_connection", TRUE, h))

RECURSIVE ScriptRun(_, _, _, _, _, _)
\* The script from initialize_session_state() to the sidebar, started with
\* st.session_state = s0 by the event `clicked`; `api` is what the network does
\* with a workflow request and `tr` with the health requests, should the run make
\* any.
ScriptRun(s0, clicked, bank, invoice, api, tr) ==
    Then(Then(Then(Then(Then(Then(InitStep(Started(s0)),
        LAMBDA c : BackendStatusCheck(c, tr)),
        LAMBDA c : UploadStep(c, clicked, bank, invoice, api)),
        LAMBDA c : IdentifyStep(c, clicked, api)),
        LAMBDA c : MatchStep(c, clicked, api)),
        LAMBDA c : DownloadStep(c, clicked)),
        LAMBDA c :
          IF ~ResetShown(c.session)
          THEN Sidebar(c, clicked, tr)
          ELSE IF clicked # "reset"
          THEN Sidebar(Button(c, "reset", TRUE, NotPressed(c)), clicked, tr)
          ELSE \* the keys are deleted and st.rerun() starts the script again
               Then(ScriptRun(ClearAll(c.session), NoClick, bank, invoice, api, tr),
                    LAMBDA again :
                      [again EXCEPT !.requests = c.requests \o @,
                                    !.outcome = "reset"]))

----------------------------------------------------------------------------
(* The stage of a session, as the progress flags give it *)

Stage(s) ==
    IF Get(s, "matching_completed", FALSE) THEN "MatchingCompleted"
    ELSE IF Get(s, "columns_identified", FALSE) THEN "ColumnsIdentified"
    ELSE IF Get(s, "files_uploaded", FALSE) THEN "FilesUploaded"
    ELSE "Idle"

WorkflowEndpoints == {"/upload", "/identify_columns", "/match"}

----------------------------------------------------------------------------
(* The state machine: one action per user event.                           *)
(* last records the run just made: the button pressed, the stage before    *)
(* the run, the requests sent, the answer to the workflow request if one   *)
(* was sent, and how the handler ended.                                    *)

\* arguments for a run that sends no request of the kind
NoApi == None

NoTr == [i \in 0..(max_retries - 1) |-> "200"]

\* no helper function is called on its own
NoCall == [fn |-> "none", input |-> None, output |-> None]

Init ==
    /\ session_state = NoKeys
    /\ bank_file = None
    /\ invoice_file = None
    /\ page = {}
    /\ last = [clicked |-> "start", stage |-> "Idle", requests |-> <<>>,
               answer |-> None, outcome |-> "none"]
    /\ call = NoCall
    /\ running = <<>>

\* A new run of the script stops the runs that are still going: each of them
\* ends at the next Streamlit call it makes.
Stopped(runs) == [i \in DOMAIN runs |-> [runs[i] EXCEPT !.stopped = TRUE]]

\* the script runs on event `clicked` and the browser shows what it drew
RunScript(clicked, api, tr) ==
    LET r == ScriptRun(session_state, clicked, bank_file', invoice_file', api, tr)
    IN /\ session_state' = r.session
       /\ page' = r.page
       /\ UNCHANGED call
       /\ last' = [clicked |-> clicked,
                   stage |-> Stage(session_state),
                   requests |-> r.requests,
                   answer |-> IF \E i \in 1..Len(r.requests) :
                                     r.requests[i] \in WorkflowEndpoints
                              THEN api ELSE None,
                   outcome |-> r.outcome]

\* a run that is taken whole, from the event to the end of the script
Run(clicked, api, tr) == RunScript(clicked, api, tr) /\ running' = Stopped(running)

\* the browser opens the app: the first run of the script
PageLoad ==
    /\ page = {}
    /\ UNCHANGED <<bank_file, invoice_file>>
    /\ \E tr \in HealthScenarios : Run(NoClick, NoApi, tr)

\* the user picks, replaces or removes the bank statement
PickBankFile ==
    /\ page # {}
    /\ \E f \in FileCandidates \cup {None} : f # bank_file /\ bank_file' = f
    /\ UNCHANGED invoice_file
    /\ Run(NoClick, NoApi, NoTr)

\* the user picks, replaces or removes the invoice file
PickInvoiceFile ==
    /\ page # {}
    /\ \E f \in FileCandidates \cup {None} : f # invoice_file /\ invoice_file' = f
    /\ UNCHANGED bank_file
    /\ Run(NoClick, NoApi, NoTr)

\* the user presses "Upload & Prepare Data"
ClickUpload ==
    /\ "upload" \in page
    /\ UNCHANGED <<bank_file, invoice_file>>
    /\ \E api \in ApiOutcomes("/upload") : Run("upload", api, NoTr)

\* the user presses "Identify Key Columns"
ClickIdentify ==
    /\ "identify" \in page
    /\ UNCHANGED <<bank_file, invoice_file>>
    /\ \E api \in ApiOutcomes("/identify_columns") : Run("identify", api, NoTr)

\* the user presses "Start AI Matching"
ClickMatch ==
    /\ "match" \in page
    /\ UNCHANGED <<bank_file, invoice_file>>
    /\ \E api \in ApiOutcomes("/match") : Run("match", api, NoTr)

\* the user presses "Download Matched Transactions"
ClickDownloadMatched ==
    /\ "download_matched" \in page
    /\ UNCHANGED <<bank_file, invoice_file>>
    /\ Run("download_matched", NoApi, NoTr)

\* the user presses "Download Full Report"
ClickDownloadReport ==
    /\ "download_report" \in page
    /\ UNCHANGED <<bank_file, invoice_file>>
    /\ Run("download_report", NoApi, NoTr)

\* the user presses "Clear All Data and Start Over"; the loop deletes the keys of
\* the two file widgets too, after which the widgets may or may not still hold
\* their files
ClickReset ==
    /\ "reset" \in page
    /\ \/ UNCHANGED <<bank_file, invoice_file>>
       \/ bank_file' = None /\ invoice_file' = None
    /\ \E tr \in HealthScenarios : Run("reset", NoApi, tr)

\* the user presses "Test Connection"
ClickTestConnection ==
    /\ "test_connection" \in page
    /\ UNCHANGED <<bank_file, invoice_file>>
    /\ \E tr \in HealthScenarios : Run("test_connection", NoApi, tr)

Next ==
    \/ PageLoad
    \/ PickBankFile
    \/ PickInvoiceFile
    \/ ClickUpload
    \/ ClickIdentify
    \/ ClickMatch
    \/ ClickDownloadMatched
    \/ ClickDownloadReport
    \/ ClickReset
    \/ ClickTestConnection

Spec == Init /\ [][Next]_vars

----------------------------------------------------------------------------
(* test_backend_connection called on its own, for every sequence of        *)
(* outcomes of its three requests                                          *)

\* the page is not open: only the helper function runs
NoPage ==
    /\ session_state = NoKeys
    /\ bank_file = None
    /\ invoice_file = None
    /\ page = {}
    /\ last = [clicked |-> "start", stage |-> "Idle", requests |-> <<>>,
               answer |-> None, outcome |-> "none"]
    /\ running = <<>>

Pending(fn, input) == [fn |-> fn, input |-> input, output |-> None]

ProbeInit ==
    /\ NoPage
    /\ \E tr \in TransportSeqs : call = Pending("test_backend_connection", tr)

\* is_connected, status = test_backend_connection()
ProbeCall ==
    /\ call.fn = "test_backend_connection"
    /\ call.output = None
    /\ call' = [call EXCEPT !.output = test_backend_connection(call.input)]
    /\ UNCHANGED <<session_state, bank_file, invoice_file, page, last, running>>

ProbeNext == ProbeCall

ProbeSpec == ProbeInit /\ [][ProbeNext]_vars

----------------------------------------------------------------------------
(* validate_file called on its own, for no file and for files of every     *)
(* name and size below                                                     *)

\* names with and without a '.', with an allowed extension in lower, upper and
\* mixed case, with an extension that is not allowed, with none after the '.'
\* and with two '.'
FileNames ==
    {<<"a", ".", "c", "s", "v">>,
     <<"a", ".", "C", "S", "V">>,
     <<"a", ".", "x", "l", "s", "x">>,
     <<"a", ".", "X", "l", "s", "x">>,
     <<"a", ".", "x", "l", "s">>,
     <<"a", ".", "X", "L", "S">>,
     <<"a", ".", "t", "x", "t">>,
     <<"a", ".", "c", "s", "v", "x">>,
     <<"a", ".", "c", "s", "v", ".", "t", "x", "t">>,
     <<"a", ".", "t", "x", "t", ".", "c", "s", "v">>,
     <<"a", ".">>,
     <<".", "x", "l", "s">>,
     <<"c", "s", "v">>,
     <<"a", "c", "s", "v">>}

\* sizes in bytes, around the maximum
FileSizes == {0, MaxFileSize - 1, MaxFileSize, MaxFileSize + 1, 2 * MaxFileSize}

FileTypes == {"Bank statement", "Invoice"}

ValidateInit ==
    /\ NoPage
    /\ \E file \in {None} \cup {File(n, sz) : n \in FileNames, sz \in FileSizes},
          file_type \in FileTypes :
          call = Pending("validate_file", [file |-> file, file_type |-> file_type])

\* is_valid, message = validate_file(file, file_type)
ValidateCall ==
    /\ call.fn = "validate_file"
    /\ call.output = None
    /\ call' = [call EXCEPT
                  !.output = validate_file(call.input.file, call.input.file_type)]
    /\ UNCHANGED <<session_state, bank_file, invoice_file, page, last, running>>

ValidateNext == ValidateCall

ValidateSpec == ValidateInit /\ [][ValidateNext]_vars

----------------------------------------------------------------------------
(* The two downloads of Step 4, computed on their own for every stored     *)
(* matching result below                                                   *)

\* a session in which matching has completed: the answer of identify_columns
\* and the answer of match are stored
CompletedSessions ==
    {[column_identification_result |-> [success |-> TRUE, column_info |-> ci],
      matching_result |-> body,
      matching_completed |-> TRUE] :
        ci \in ColumnInfos, body \in MatchBodies}

ExportInit ==
    /\ NoPage
    /\ \E s \in CompletedSessions, fn \in {"download_matched", "download_report"} :
          call = Pending(fn, s)

\* the user presses "Download Matched Transactions"
DownloadMatchedCall ==
    /\ call.fn = "download_matched"
    /\ call.output = None
    /\ call' = [call EXCEPT !.output = DownloadMatchedHandler(call.input)]
    /\ UNCHANGED <<session_state, bank_file, invoice_file, page, last, running>>

\* the user presses "Download Full Report"
DownloadReportCall ==
    /\ call.fn = "download_report"
    /\ call.output = None
    /\ call' = [call EXCEPT !.output = DownloadReportHandler(call.input)]
    /\ UNCHANGED <<session_state, bank_file, invoice_file, page, last, running>>

ExportNext ==
    \/ DownloadMatchedCall
    \/ DownloadReportCall

ExportSpec == ExportInit /\ [][ExportNext]_vars

----------------------------------------------------------------------------
(* Runs that wait for the backend.  A workflow handler blocks in           *)
(* make_api_request until the request is answered; the page stays usable   *)
(* meanwhile, and the code keeps no mark of a request being under way.  An *)
(* event that arrives starts a new run of the script and stops the one     *)
(* that waits: that one goes on to the next Streamlit call it makes after  *)
(* the answer (st.error, st.success or st.write, each of which comes       *)
(* before the handler stores anything) and ends there.                     *)

\* the most runs that wait for an answer at once
MaxRunning == 2

WorkflowButtons == {"upload", "identify", "match"}

\* the workflow requests the run started by `clicked` sends; which ones does not
\* depend on how they are answered
RequestsOf(clicked) ==
    SelectSeq(ScriptRun(session_state, clicked, bank_file, invoice_file,
                        Raised("Timeout"), NoTr).requests,
              LAMBDA e : e \in WorkflowEndpoints)

Remove(runs, i) == [j \in 1..(Len(runs) - 1) |-> IF j < i THEN runs[j] ELSE runs[j + 1]]

\* the user presses a workflow button: the script runs up to make_api_request
\* and waits there, or runs to its end if the handler sends nothing
Begin ==
    /\ Len(running) < MaxRunning
    /\ UNCHANGED <<bank_file, invoice_file>>
    /\ \E clicked \in WorkflowButtons \cap page :
          IF RequestsOf(clicked) = <<>>
          THEN Run(clicked, NoApi, NoTr)
          ELSE /\ running' = Append(Stopped(running),
                                     [clicked |-> clicked,
                                      endpoint |-> RequestsOf(clicked)[1],
                                      stopped |-> FALSE])
               /\ UNCHANGED <<session_state, page, last, call>>

\* the request of a run is answered: the handler goes on to its end
Return ==
    /\ UNCHANGED <<bank_file, invoice_file>>
    /\ \E i \in DOMAIN running :
          /\ ~running[i].stopped
          /\ running' = Remove(running, i)
          /\ \E api \in ApiOutcomes(running[i].endpoint) :
                RunScript(running[i].clicked, api, NoTr)

\* the request of a stopped run is answered: the run ends at the Streamlit call
\* that follows make_api_request, with nothing stored
ReturnStopped ==
    /\ UNCHANGED <<session_state, bank_file, invoice_file, page, call>>
    /\ \E i \in DOMAIN running :
          /\ running[i].stopped
          /\ running' = Remove(running, i)
          /\ \E api \in ApiOutcomes(running[i].endpoint) :
                last' = [clicked |-> running[i].clicked,
                         stage |-> Stage(session_state),
                         requests |-> <<running[i].endpoint>>,
                         answer |-> api,
                         outcome |-> "stopped"]

FlightNext ==
    \/ PageLoad
    \/ PickBankFile
    \/ PickInvoiceFile
    \/ Begin
    \/ Return
    \/ ReturnStopped

FlightSpec == Init /\ [][FlightNext]_vars

----------------------------------------------------------------------------
(* make_api_request called on its own, for every method, payload and       *)
(* outcome of the request below                                            *)

RequestEndpoints == {"/health", "/upload", "/identify_columns", "/match"}

RequestMethods == {"GET", "POST", "PUT"}

\* data= and files=: left out, a dict without keys, a dict with a key
RequestPayloads == {None, EmptyPayload, [type |-> "dict", session_id |-> "sess-1"]}

\* what the network does with a request: the exceptions requests raises, an
\* exception of another class with one of two messages, and responses of the
\* backend with a status of every class
RequestOutcomes ==
    {Raised(c) : c \in TimeoutClasses \cup ConnectionErrorClasses}
    \cup {RaisedWith("ValueError", m) : m \in {"bad value", "Invalid URL"}}
    \cup {Response(code, ErrorBody) : code \in {200, 201, 302, 404, 500}}
    \cup {Response(200, [type |-> "dict", success |-> TRUE])}

RequestInit ==
    /\ NoPage
    /\ \E endpoint \in RequestEndpoints, method \in RequestMethods,
          data \in RequestPayloads, files \in RequestPayloads,
          transport \in RequestOutcomes :
          call = Pending("make_api_request",
                         [endpoint |-> endpoint, method |-> method, data |-> data,
                          files |-> files, transport |-> transport])

\* response, error = make_api_request(endpoint, method, data, files)
RequestCall ==
    /\ call.fn = "make_api_request"
    /\ call.output = None
    /\ call' = [call EXCEPT
                  !.output = make_api_request(call.input.endpoint, call.input.method,
                                              call.input.data, call.input.files,
                                              call.input.transport)]
    /\ UNCHANGED <<session_state, bank_file, invoice_file, page, last, running>>

RequestNext == RequestCall

RequestSpec == RequestInit /\ [][RequestNext]_vars

----------------------------------------------------------------------------
(* Properties *)

\* the run just made sent a request to `endpoint`
Sent(run, endpoint) == \E i \in 1..Len(run.requests) : run.requests[i] = endpoint

\* the answer is a 200 response with success=true
Succeeded(answer) ==
    /\ answer # None
    /\ answer \notin TransportFailures
    /\ answer.status_code = 200
    /\ answer.body.success

\* a request was sent and failed: a request error, a status other than 200, or a
\* 200 response with success=false
Failed(answer) == answer # None /\ ~Succeeded(answer)

(* C1: a POST /upload is sent only by a run that starts in stage Idle.     *)
(* The code does not keep this: the run in which an upload succeeds drew   *)
(* the upload button before files_uploaded was set, so the page it leaves  *)
(* shows the button enabled, and a second press sends /upload again from   *)
(* FilesUploaded.                                                          *)
C1_UploadOnlyFromIdle ==
    [][Sent(last', "/upload") => Stage(session_state) = "Idle"]_vars

(* C2: a POST /identify_columns is sent only by a run that starts in stage *)
(* FilesUploaded, and a POST /match only by a run that starts in           *)
(* ColumnsIdentified.  The code does not keep this either, for the same    *)
(* reason as C1: each button is drawn before its own handler sets the flag *)
(* that disables it.                                                       *)
C2_IdentifyAndMatchOnlyFromTheirStage ==
    [][/\ Sent(last', "/identify_columns") => Stage(session_state) = "FilesUploaded"
       /\ Sent(last', "/match") => Stage(session_state) = "ColumnsIdentified"]_vars

(* C3: in every step the stage stays the same, or advances by exactly one  *)
(* position as the effect of a successful upload, identify or match, or    *)
(* returns to Idle by a reset.                                             *)
C3_StageMonotonic ==
    [][LET from == Stage(session_state)
           to == Stage(session_state')
           ok(button) == last'.clicked = button /\ Succeeded(last'.answer)
       IN \/ to = from
          \/ from = "Idle" /\ to = "FilesUploaded" /\ ok("upload")
          \/ from = "FilesUploaded" /\ to = "ColumnsIdentified" /\ ok("identify")
          \/ from = "ColumnsIdentified" /\ to = "MatchingCompleted" /\ ok("match")
          \/ to = "Idle" /\ last'.clicked = "reset"]_vars

\* C3's case: a reset has brought a session that had finished matching back to Idle
C3_Witness ==
    /\ last.clicked = "reset"
    /\ last.stage = "MatchingCompleted"
    /\ Stage(session_state) = "Idle"

(* C4: in stage ColumnsIdentified or MatchingCompleted the session id is   *)
(* non-null and is the one the stored answer of a successful upload        *)
(* assigned.                                                               *)
C4_LateStagesHaveSessionId ==
    Stage(session_state) \in {"ColumnsIdentified", "MatchingCompleted"}
    => /\ session_state["session_id"] \in SessionIds
       /\ Truthy(session_state["session_id"])
       /\ session_state["upload_result"] \in SuccessBodies("/upload")
       /\ session_state["session_id"] = session_state["upload_result"].session_id

\* C4's case: the columns have just been identified
C4_Witness ==
    /\ last.clicked = "identify"
    /\ Succeeded(last.answer)
    /\ Stage(session_state) = "ColumnsIdentified"

C6_FailureLeavesSessionUnchanged ==
    [][(last'.clicked \in {"upload", "identify", "match"} /\ Failed(last'.answer))
       => session_state' = session_state]_vars

\* C6's case: an identifyColumns whose request got no response
C6_Witness ==
    /\ last.clicked = "identify"
    /\ last.answer \in TransportFailures
    /\ Stage(session_state) = "FilesUploaded"

\* what a reset leaves: the defaults in every key but the cached health, stage
\* Idle, and no request to a workflow endpoint sent
ResetLeavesEmptySession ==
    last.clicked = "reset"
    => /\ \A k \in (DOMAIN default_states) \ {"backend_status"} :
              session_state[k] = default_states[k]
       /\ DOMAIN session_state = DOMAIN default_states
       /\ Stage(session_state) = "Idle"
       /\ \A e \in WorkflowEndpoints : ~Sent(last, e)

(* C7 as claimed: the reset is offered in every stage, Idle included, and  *)
(* leaves an empty session without a request to a workflow endpoint.  The  *)
(* code draws the reset button only when a progress flag is set, so in     *)
(* Idle there is no reset to invoke.                                       *)
C7_ResetFromEveryStage ==
    /\ page # {} => "reset" \in page
    /\ ResetLeavesEmptySession

(* C7, amended: the reset is offered in exactly the stages other than      *)
(* Idle; whenever it is invoked it leaves an empty session (stage Idle,    *)
(* session id null, no stored result) and sends no request to a workflow   *)
(* endpoint.                                                               *)
C7_ResetFromEveryStageButIdle ==
    /\ page # {} => ("reset" \in page <=> Stage(session_state) # "Idle")
    /\ ResetLeavesEmptySession

\* C7's case: a reset of a session with uploaded files has just run
C7_Witness ==
    /\ last.clicked = "reset"
    /\ last.stage = "FilesUploaded"

C9_UnpermittedTransitionIsReportedNoOp ==
    [][LET stage == Stage(session_state)
           unpermitted ==
              \/ last'.clicked = "upload" /\ stage # "Idle"
              \/ last'.clicked = "identify" /\ stage # "FilesUploaded"
              \/ last'.clicked = "match" /\ stage # "ColumnsIdentified"
       IN unpermitted => /\ last'.requests = <<>>
                         /\ session_state' = session_state]_vars

(* C10: an upload sends no /upload request when the cached health is not   *)
(* healthy, and leaves the cached health as it is.  The code does not keep *)
(* the first part: a Test Connection that fails leaves on the page the     *)
(* upload button drawn, enabled, before the probe ran.                     *)
C10_UploadRefusedWhenUnhealthy ==
    [][last'.clicked = "upload"
       => /\ ~session_state["backend_status"].connected => ~Sent(last', "/upload")
          /\ session_state'["backend_status"] = session_state["backend_status"]]_vars

----------------------------------------------------------------------------
(* Properties of test_backend_connection *)

ProbeReturned == call.fn = "test_backend_connection" /\ call.output # None

TransportLevel == {"ssl", "connection", "timeout", "exception"}

\* the number of attempts, from the first one on, that fail at transport level
RECURSIVE LeadingFailures(_, _)
LeadingFailures(tr, i) ==
    IF i > 2 THEN 0
    ELSE IF tr[i] \in TransportLevel THEN 1 + LeadingFailures(tr, i + 1)
    ELSE 0

(* C11: the probe waits 2*2^i seconds after a transport-level failure of   *)
(* attempt i only when another attempt follows: 2 s after the first, 4 s   *)
(* after the second, nothing after the third; two failures followed by a   *)
(* 200 give success after exactly the waits 2 s, 4 s.                      *)
C11_BackoffBetweenAttemptsOnly ==
    ProbeReturned
    => LET tr == call.input
           n == LeadingFailures(tr, 0)
           expected == IF n = 0 THEN <<>> ELSE IF n = 1 THEN <<2>> ELSE <<2, 4>>
       IN /\ call.output.waits = expected
          /\ (n = 2 /\ tr[2] = "200")
             => call.output.connected /\ call.output.waits = <<2, 4>>

\* C11's case: two transport-level failures, then a 200
C11_Witness ==
    /\ ProbeReturned
    /\ call.input[0] = "timeout" /\ call.input[1] = "connection"
    /\ call.input[2] = "200"
    /\ call.output.connected

(* C12: a response whose status is not 200 ends the probe at once with a   *)
(* bad-status result: no further attempt and no further wait; the probe    *)
(* succeeds only on a response with status 200.                            *)
C12_BadStatusReturnsAtOnce ==
    ProbeReturned
    => LET tr == call.input
           n == LeadingFailures(tr, 0)
       IN /\ (n <= 2 /\ tr[n] = "non200")
             => /\ ~call.output.connected
                /\ call.output.message = "HTTP error"
                /\ call.output.attempts = n + 1
                /\ Len(call.output.waits) = n
          /\ call.output.connected <=> (n <= 2 /\ tr[n] = "200")

\* C12's case: the first attempt is answered with a status other than 200
C12_Witness ==
    /\ ProbeReturned
    /\ call.input[0] = "non200"
    /\ call.output.attempts = 1

(* C13 as claimed: when all three attempts fail at transport level the     *)
(* probe returns "Max retries exceeded".  The code returns from the except *)
(* clause of the third attempt with that attempt's own error; the return   *)
(* after the loop is never reached.                                        *)
C13_ExhaustedReturnsMaxRetriesExceeded ==
    (ProbeReturned /\ LeadingFailures(call.input, 0) = 3)
    => ~call.output.connected /\ call.output.message = "Max retries exceeded"

(* C13, amended: when all three attempts fail at transport level the probe *)
(* returns a failure that carries the error of the third attempt (SSL,     *)
(* connection, timeout or unexpected); no run of the probe returns         *)
(* "Max retries exceeded".                                                 *)
C13_ExhaustedReturnsLastError ==
    ProbeReturned
    => /\ LeadingFailures(call.input, 0) = 3
          => /\ ~call.output.connected
             /\ call.output.attempts = 3
             /\ call.output.message =
                   (CASE call.input[2] = "ssl" -> "SSL Error"
                      [] call.input[2] = "connection" -> "Connection Error"
                      [] call.input[2] = "timeout" ->
                            "Timeout - Backend may be sleeping on Render"
                      [] OTHER -> "Unexpected error")
       /\ call.output.message # "Max retries exceeded"

\* C13's case: all three attempts fail at transport level
C13_Witness ==
    /\ ProbeReturned
    /\ call.input[0] = "ssl" /\ call.input[1] = "timeout"
    /\ call.input[2] = "connection"

(* C14: for every sequence of outcomes the probe returns a result after at *)
(* most 3 requests and at most 2 waits.                                    *)
C14_ProbeBounded ==
    /\ call.fn = "test_backend_connection" /\ call.output = None => ENABLED ProbeCall
    /\ ProbeReturned
       => /\ call.output.attempts \in 1..3
          /\ Len(call.output.waits) <= 2
          /\ Len(call.output.waits) < call.output.attempts
          /\ call.output.connected \in BOOLEAN

\* C14's case: the longest run, three requests and two waits
C14_Witness ==
    /\ ProbeReturned
    /\ call.output.attempts = 3
    /\ Len(call.output.waits) = 2
    /\ call.input[2] = "non200"

ValidateReturned == call.fn = "validate_file" /\ call.output # None

\* the position of the last '.' of a name, 0 if it has none
RECURSIVE LastDot(_, _)
LastDot(name, i) ==
    IF i = 0 THEN 0 ELSE IF name[i] = "." THEN i ELSE LastDot(name, i - 1)

\* the extensions that are allowed, in every mix of upper and lower case
AllowedInAnyCase ==
    {ext \in UNION {[1..n -> {"c", "s", "v", "x", "l", "C", "S", "V", "X", "L"}] :
                        n \in 3..4} :
        LET low == [i \in 1..Len(ext) |->
                       CASE ext[i] = "C" -> "c" [] ext[i] = "S" -> "s"
                         [] ext[i] = "V" -> "v" [] ext[i] = "X" -> "x"
                         [] ext[i] = "L" -> "l" [] OTHER -> ext[i]]
        IN low \in {<<"c", "s", "v">>, <<"x", "l", "s", "x">>, <<"x", "l", "s">>}}

MatchedReturned == call.fn = "download_matched" /\ call.output # None

(* C17: the rows of the matched-transactions download are one per match of *)
(* the stored matching result, in the order of the matches; a row holds    *)
(* every bank field under "Bank_" + field, every invoice field under       *)
(* "Invoice_" + field, Confidence_Score and Match_Reason of its match, and *)
(* nothing else; the table made of the rows has one record per row with    *)
(* the same cells.                                                         *)
C17_OneRowPerMatch ==
    MatchedReturned
    => LET matches == call.input.matching_result.matches
           rows == call.output.matched_data
       IN /\ Len(rows) = Len(matches)
          /\ \A i \in 1..Len(matches) :
                LET a == matches[i].file_a_entry
                    b == matches[i].file_b_entry
                IN /\ \A f \in DOMAIN a :
                        /\ ("Bank_" \o f) \in DOMAIN rows[i]
                        /\ rows[i]["Bank_" \o f] = a[f]
                   /\ \A f \in DOMAIN b :
                        /\ ("Invoice_" \o f) \in DOMAIN rows[i]
                        /\ rows[i]["Invoice_" \o f] = b[f]
                   /\ rows[i]["Confidence_Score"] = matches[i].confidence_score
                   /\ rows[i]["Match_Reason"] = matches[i].match_reason
                   /\ Cardinality(DOMAIN rows[i])
                        = Cardinality(DOMAIN a) + Cardinality(DOMAIN b) + 2
          /\ matches # <<>>
             => LET df == call.output.matched_df
                IN /\ Len(df.records) = Len(matches)
                   /\ \A i \in 1..Len(rows) : \A k \in DOMAIN rows[i] :
                         df.records[i][k] = rows[i][k]

\* C17's case: two matches whose rows differ in their fields, in this order
C17_Witness ==
    /\ MatchedReturned
    /\ Len(call.input.matching_result.matches) = 2
    /\ call.input.matching_result.matches[1].file_a_entry.amount = 250
    /\ call.input.matching_result.matches[2].file_a_entry.amount = 100
    /\ call.input.matching_result.matches[2].file_b_entry.amount = 120
    /\ Len(call.output.matched_data) = 2
    /\ call.output.matched_data[2]["Invoice_amount"] = 120

ReportReturned == call.fn = "download_report" /\ call.output # None

(* C18: the summary, matches, unmatched_bank and unmatched_invoices of the *)
(* full report equal summary, matches, unmatched_file_a_entries and        *)
(* unmatched_file_b_entries of the stored matching result, and its         *)
(* column_info is the column info that identify_columns returned for the   *)
(* session.                                                                *)
C18_FullReportVerbatim ==
    (ReportReturned /\ "summary" \in DOMAIN call.input.matching_result)
    => LET stored == call.input.matching_result
           report == call.output.report_data
       IN /\ report.summary = stored.summary
          /\ report.matches = stored.matches
          /\ report.unmatched_bank = stored.unmatched_file_a_entries
          /\ report.unmatched_invoices = stored.unmatched_file_b_entries
          /\ report.column_info
               = call.input.column_identification_result.column_info

Exports == {"matched_csv", "full_report"}

DownloadButtons == {"download_matched", "download_report"}

(* C19: the matched-rows CSV and the full report are produced only in      *)
(* stage MatchingCompleted, with a matching result stored: a run that      *)
(* produces one starts and ends in that stage, and the page offers a       *)
(* download button in no other stage, so none after a reset until a match  *)
(* has succeeded again.                                                    *)
C19_ExportsOnlyWhenMatchingCompleted ==
    /\ last.outcome \in Exports
       => /\ last.stage = "MatchingCompleted"
          /\ Stage(session_state) = "MatchingCompleted"
          /\ Truthy(Get(session_state, "matching_result", None))
    /\ page \cap DownloadButtons # {}
       => /\ Stage(session_state) = "MatchingCompleted"
          /\ Truthy(Get(session_state, "matching_result", None))
    /\ last.outcome = "reset" => page \cap DownloadButtons = {}

\* C19's case: the full report is produced
C19_Witness ==
    /\ last.clicked = "download_report"
    /\ last.outcome = "full_report"
    /\ Stage(session_state) = "MatchingCompleted"

\* a reset out of stage MatchingCompleted, after which no download is offered
C19_ResetWitness ==
    /\ last.clicked = "reset"
    /\ last.stage = "MatchingCompleted"
    /\ page \cap DownloadButtons = {}

\* the requests of a run that went to a workflow endpoint
WorkflowRequests(run) ==
    {i \in 1..Len(run.requests) : run.requests[i] \in WorkflowEndpoints}

EndpointOf(clicked) ==
    CASE clicked = "upload" -> "/upload"
      [] clicked = "identify" -> "/identify_columns"
      [] OTHER -> "/match"

(* C20: a press of the upload, identify or match button makes at most one  *)
(* request to a workflow endpoint, to the endpoint of the button, whatever *)
(* the request ends in; a request that failed or timed out is not sent     *)
(* again; no other run makes a workflow request.                           *)
C20_AtMostOneRequestNoRetry ==
    /\ Cardinality(WorkflowRequests(last)) <= 1
    /\ \A i \in WorkflowRequests(last) :
          /\ last.clicked \in {"upload", "identify", "match"}
          /\ last.requests[i] = EndpointOf(last.clicked)
    /\ Failed(last.answer) => Cardinality(WorkflowRequests(last)) = 1

\* C20's case: the request of an upload times out
C20_Witness ==
    /\ last.clicked = "upload"
    /\ last.answer = Raised("Timeout")
    /\ last.requests = <<"/upload">>
    /\ last.outcome = "request_error"

(* C15: at most one workflow transition is in progress for a session:      *)
(* while the request of one run is in flight no second run of a workflow   *)
(* handler begins, so at most one run waits for an answer.  The code does  *)
(* not keep this: the buttons stay usable while a handler waits and the    *)
(* code keeps no mark of a request being under way, so a press starts a    *)
(* second run, which sends its own request, and stops the waiting one.     *)
C15_OneTransitionInProgress == Len(running) <= 1

\* what C15 gets right: a run that was stopped while it waited stores nothing, so
\* the updates of two runs are not mixed
StoppedRunStoresNothing ==
    [][(last'.outcome = "stopped" /\ last' # last) => session_state' = session_state]_vars

RequestReturned == call.fn = "make_api_request" /\ call.output # None

\* what C21 gives for an outcome of the request
ClaimedResult(transport) ==
    IF transport.type = "Response"
    THEN [response |-> transport, error |-> None]
    ELSE IF transport.class \in {"Timeout", "ReadTimeout", "ConnectTimeout"}
    THEN [response |-> None,
          error |-> Str("Request timed out. The operation may be taking longer than expected.")]
    ELSE IF transport.class \in {"ConnectionError", "SSLError", "ProxyError"}
    THEN [response |-> None,
          error |-> Str("Failed to connect to backend. The service may be starting up.")]
    ELSE [response |-> None, error |-> Str("Request failed: " \o transport.message)]

\* the call is a GET, or a POST with files or with data that is not empty
SendsRequest(input) ==
    \/ input.method = "GET"
    \/ input.method = "POST"
       /\ \/ input.files \notin {None, [type |-> "dict"]}
          \/ input.data \notin {None, [type |-> "dict"]}

C22_FieldsDescribeOneStage ==
    LET stored(key) == Get(session_state, key, None) # None
        flag(key) == Get(session_state, key, FALSE)
    IN /\ stored("upload_result") <=> flag("files_uploaded")
       /\ stored("column_identification_result") <=> flag("columns_identified")
       /\ stored("matching_result") <=> flag("matching_completed")
       /\ flag("matching_completed") => flag("columns_identified")
       /\ flag("columns_identified") => flag("files_uploaded")

\* C22's case: a match has just succeeded and all three answers are stored
C22_Witness ==
    /\ last.clicked = "match"
    /\ last.outcome = "success"
    /\ Get(session_state, "matching_result", None) # None
    /\ Get(session_state, "column_identification_result", None) # None
    /\ Get(session_state, "upload_result", None) # None
    /\ Get(session_state, "matching_completed", FALSE)

\* the cached health result of a session that has one
Healthy(s) == "backend_status" \in DOMAIN s /\ s["backend_status"].connected

\* a press of identify or match sends no workflow request while the cached
\* health result is not healthy
C23_RefusedWhenUnhealthy ==
    [][last'.clicked \in {"identify", "match"}
       => (~Healthy(session_state) => WorkflowRequests(last') = {})]_vars

\* a run of identify or match makes no health probe and leaves the cached
\* health result as it is
C23_NoProbe ==
    [][last'.clicked \in {"identify", "match"}
       => /\ ~Sent(last', "/health")
          /\ session_state'["backend_status"] = session_state["backend_status"]]_vars

\* a run offers the identify or the match button, which the page before it did
\* not offer, only if the cached health result it starts with is healthy: the
\* buttons become available only after a healthy result has been stored
C23_AvailableOnlyAfterHealthy ==
    [][\A b \in {"identify", "match"} :
         (b \notin page /\ b \in page') => Healthy(session_state)]_vars

(* C23: identify and match send no request to the backend whenever the     *)
(* cached health result is not healthy, neither makes a health probe, and  *)
(* they become available only after a healthy result has been stored.  The *)
(* code does not keep the first part: a Test Connection that fails leaves  *)
(* on the page the identify or match button drawn, enabled, before the     *)
(* probe ran.                                                              *)
C23_IdentifyAndMatchRefusedWhenUnhealthy ==
    [][/\ last'.clicked \in {"identify", "match"}
          => /\ ~Healthy(session_state) => WorkflowRequests(last') = {}
             /\ ~Sent(last', "/health")
             /\ session_state'["backend_status"] = session_state["backend_status"]
       /\ \A b \in {"identify", "match"} :
            (b \notin page /\ b \in page') => Healthy(session_state)]_vars

====
